---- MODULE Spec2Model ----
(***************************************************************************)
(* API enablement checking with polling and retries (ensureApiEnabled).    *)
(*                                                                         *)
(* One CLI process runs check / ensure / bestEffortEnsure; it suspends at  *)
(* the awaits of the source: the GET status query, the POST enable request *)
(* and the poll timer.  The enablement cache lives in the file-backed      *)
(* configstore, which other CLI processes read and write as well, so the   *)
(* read and the write of cacheEnabledAPI are separate steps.               *)
(***************************************************************************)
EXTENDS Integers, Sequences, FiniteSets, TLC

VARIABLES
  file,        \* configstore value stored under API_ENABLEMENT_CACHE_KEY
  inv,         \* the invocation running in this process (locals and position)
  other,       \* other CLI processes, each inside or outside cacheEnabledAPI
  sawEnabled,  \* history: pairs for which a status query has returned "ENABLED"
  written      \* history: pairs for which some cacheEnabledAPI call has completed

vars == <<file, inv, other, sawEnabled, written>>

----------------------------------------------------------------------------
(* Bounds of the model *)

NumOthers == 1          \* other CLI processes sharing the configstore file
CountCap == 30          \* history counters saturate here (above any reachable count)

Others == 1..NumOthers
Projects == {"p1"}

(* Strings that the code inspects are sequences of tokens: "http" is the *)
(* four letters, "-" a hyphen, the other tokens are letters and dots     *)
Foo == <<"foo", ".googleapis.com">>
Bar == <<"bar", ".googleapis.com">>
HttpBin == <<"http", "bin", ".googleapis.com">>
StorageComponent == <<"storage", "-", "component", ".googleapis.com">>
NoName == <<>>

Services == {Foo, Bar}
Pairs == Projects \X Services

(* Program constants *)

pollInterval == 10000
pollsBeforeRetry == 12

----------------------------------------------------------------------------
(* Callers pass a service either as a bare hostname or as a full URL *)

BareForm(host) == host

UrlForm(host) == <<"http", "s", "://">> \o host

ApiUris == {BareForm(h) : h \in Services \cup {HttpBin}} \cup {UrlForm(h) : h \in Services}

(* apiUri.startsWith("http") *)
startsWithHttp(apiUri) == Len(apiUri) >= 1 /\ apiUri[1] = "http"

(* Position of the first token tok in str, 0 when there is none *)
IndexOf(str, tok) ==
  IF \E k \in 1..Len(str) : str[k] = tok
    THEN CHOOSE k \in 1..Len(str) : str[k] = tok /\ \A j \in 1..(k - 1) : str[j] # tok
    ELSE 0

(* new URL(apiUri) parses: a scheme, "://" and a non-empty host *)
validURL(apiUri) ==
  LET k == IndexOf(apiUri, "://")
  IN  k > 1 /\ Len(apiUri) > k /\ apiUri[k + 1] # "/"

(* new URL(apiUri).hostname: what lies between "://" and the path *)
hostname(apiUri) ==
  LET k == IndexOf(apiUri, "://")
      rest == SubSeq(apiUri, k + 1, Len(apiUri))
      slash == IndexOf(rest, "/")
  IN  IF slash = 0 THEN rest ELSE SubSeq(rest, 1, slash - 1)

(* apiUri.startsWith("http") ? new URL(apiUri).hostname : apiUri throws *)
apiNameThrows(apiUri) == startsWithHttp(apiUri) /\ ~validURL(apiUri)

apiNameOf(apiUri) == IF startsWithHttp(apiUri) THEN hostname(apiUri) ELSE apiUri

----------------------------------------------------------------------------
(* Remote responses *)

States == {"ENABLED", "DISABLED", "STATE_UNSPECIFIED"}

NoError == [type |-> "none", billing |-> FALSE, status |-> "none", message |-> <<>>]

InvalidURLError == [type |-> "TypeError", billing |-> FALSE, status |-> "none",
                    message |-> <<"Invalid URL">>]

TransportError == [type |-> "HTTPError", billing |-> FALSE, status |-> "UNAVAILABLE",
                   message |-> <<"request failed">>]

PermissionMessage(x) == <<"Permission denied to enable service [", x, "]">>

EnableErrors ==
  { [type |-> "HTTPError", billing |-> b, status |-> s, message |-> m] :
      b \in BOOLEAN, s \in {"PERMISSION_DENIED", "UNAVAILABLE"},
      m \in {<<"request failed">>} \cup
            {PermissionMessage(x) : x \in {Foo, StorageComponent}} }

----------------------------------------------------------------------------
(* The configstore: a key-value store kept in a file *)

EmptyCache == [p \in {} |-> [s \in {} |-> TRUE]]

configstoreGet(f) == f

configstoreSet(f, cache) == cache

(* checkAPIEnablementCache: !!cache?.[projectId]?.[apiName] *)
checkAPIEnablementCache(f, projectId, apiName) ==
  LET cache == configstoreGet(f)
  IN  /\ projectId \in DOMAIN cache
      /\ apiName \in DOMAIN cache[projectId]
      /\ cache[projectId][apiName]

(* Mutant: the write keeps only the new entry *)
cacheWithEntry_Overwrite(cache, projectId, apiName) ==
  [p \in {projectId} |-> [s \in {apiName} |-> TRUE]]

(* cacheEnabledAPI after its configstore.get: the map it hands to set *)
cacheWithEntry(cache, projectId, apiName) ==
  LET c1 == [p \in DOMAIN cache \cup {projectId} |->
               IF p \in DOMAIN cache THEN cache[p] ELSE [s \in {} |-> TRUE]]
  IN  [p \in DOMAIN c1 |->
         IF p = projectId
           THEN [s \in DOMAIN c1[p] \cup {apiName} |->
                   IF s = apiName THEN TRUE ELSE c1[p][s]]
           ELSE c1[p]]

Entries(cache) == {pr \in Pairs : pr[1] \in DOMAIN cache /\ pr[2] \in DOMAIN cache[pr[1]]}

----------------------------------------------------------------------------
(* The invocation record *)

Idle ==
  [pc |-> "idle", op |-> "none", projectId |-> "none", apiUri |-> NoName,
   apiName |-> NoName, phase |-> "none", after |-> "none",
   enablementRetries |-> 0, pollRetries |-> 0, snap |-> EmptyCache,
   initial |-> "none", result |-> "none", raised |-> NoError, swallowed |-> NoError,
   state |-> "none", enableCount |-> 0, getCount |-> 0, pollCount |-> 0,
   sleepCount |-> 0, tracked |-> 0,
   lastState |-> "none",     \* history: state returned to the check that ended last
   cause |-> NoError,        \* history: error the GET or the POST failed with
   trackedName |-> NoName,   \* api_name parameter of the api_enabled event
   telemetry |-> "none"]     \* the discarded promise of trackGA4

Inc(n) == IF n < CountCap THEN n + 1 ELSE n

(* A normal return of the top-level operation *)
Return(i, value) == [i EXCEPT !.pc = "done", !.result = value]

(* Mutant: the catch block rethrows *)
bestEffortEnsure_Rethrow(i, err) == [i EXCEPT !.pc = "done", !.raised = err]

(* bestEffortEnsure: try { await ensure(...) } catch { logger.debug(...) } *)
bestEffortEnsure(i, err) == [i EXCEPT !.pc = "done", !.result = "void", !.swallowed = err]

(* Mutant: every error is caught and dropped on its way up *)
Throw_Swallow(i, err) == [i EXCEPT !.pc = "done", !.result = "void", !.swallowed = err]

(* An error leaving check / enable / enableApiWithRetries propagates up to *)
(* the top-level operation                                                 *)
Throw(i, err) ==
  IF i.op = "bestEffortEnsure"
    THEN bestEffortEnsure(i, err)
    ELSE [i EXCEPT !.pc = "done", !.raised = err]

TimeoutError(apiName) ==
  [type |-> "FirebaseError", billing |-> FALSE, status |-> "none",
   message |-> <<"Timed out waiting for API ", apiName,
                 " to enable. Please try again in a few minutes.">>]

(* isBillingError of ./error: the response reports a billing restriction *)
isBillingError(err) == err.billing

(* isPermissionError *)
isPermissionError(err) == err.status = "PERMISSION_DENIED"

(* The class [.a-zA-Z]+ of apiPermissionDeniedRegex: letters and dots *)
RegexNames(name) == Len(name) >= 1 /\ \A k \in 1..Len(name) : name[k] # "-"

(* apiPermissionDeniedRegex.exec(message): the captured name, or NoName *)
apiPermissionDeniedRegex(message) ==
  IF /\ Len(message) = 3
     /\ message[1] = "Permission denied to enable service ["
     /\ RegexNames(message[2])
     /\ message[3] = "]"
    THEN message[2]
    ELSE NoName

BillingError(projectId, apiName) ==
  [type |-> "FirebaseError", billing |-> FALSE, status |-> "none",
   message |-> <<"Your project ", projectId, " must be on the Blaze plan. Required API ",
                 apiName, " can't be enabled until the upgrade is complete. ",
                 "https://console.firebase.google.com/project/", projectId,
                 "/usage/details">>]

PermissionDeniedMessage(serviceUrl, projectId) ==
  <<"Permissions denied enabling ", serviceUrl,
    "https://console.cloud.google.com/apis/library/", serviceUrl, "?project=", projectId>>

(* Mutant: the permission branch is tested before the billing branch *)
enableCatch_PermissionFirst(err, projectId, apiName) ==
  IF isPermissionError(err)
    THEN LET serviceUrl == apiPermissionDeniedRegex(err.message)
         IN  IF serviceUrl # NoName
               THEN [err EXCEPT !.message = PermissionDeniedMessage(serviceUrl, projectId)]
               ELSE err
    ELSE IF isBillingError(err)
      THEN BillingError(projectId, apiName)
      ELSE err

(* The error enable throws for an error caught from its POST *)
enableCatch(err, projectId, apiName) ==
  IF isBillingError(err)
    THEN BillingError(projectId, apiName)
    ELSE IF isPermissionError(err)
      THEN LET serviceUrl == apiPermissionDeniedRegex(err.message)
           IN  IF serviceUrl # NoName
                 THEN [err EXCEPT !.message = PermissionDeniedMessage(serviceUrl, projectId)]
                 ELSE err
      ELSE err

(* Mutant: the retry bound is off by one *)
enableApiWithRetries_OffByOne(i, enablementRetries) ==
  IF enablementRetries > 2
    THEN Throw(i, TimeoutError(i.apiName))
    ELSE [i EXCEPT !.pc = "post", !.enablementRetries = enablementRetries,
                   !.enableCount = Inc(@)]

(* enableApiWithRetries up to the await of enable's POST *)
enableApiWithRetries(i, enablementRetries) ==
  IF enablementRetries > 1
    THEN Throw(i, TimeoutError(i.apiName))
    ELSE [i EXCEPT !.pc = "post", !.enablementRetries = enablementRetries,
                   !.enableCount = Inc(@)]

(* Mutant: the timer runs before the poll budget is tested *)
pollCheckEnabled_SleepFirst(i, enablementRetries, pollRetries) ==
  IF pollRetries > pollsBeforeRetry
    THEN enableApiWithRetries([i EXCEPT !.sleepCount = Inc(@)], enablementRetries + 1)
    ELSE [i EXCEPT !.pc = "sleep", !.phase = "poll",
                   !.enablementRetries = enablementRetries,
                   !.pollRetries = pollRetries, !.sleepCount = Inc(@)]

(* Mutant: the exhausted poll cycle re-enters without counting the attempt *)
pollCheckEnabled_SameRetry(i, enablementRetries, pollRetries) ==
  IF pollRetries > pollsBeforeRetry
    THEN enableApiWithRetries(i, enablementRetries)
    ELSE [i EXCEPT !.pc = "sleep", !.phase = "poll",
                   !.enablementRetries = enablementRetries,
                   !.pollRetries = pollRetries, !.sleepCount = Inc(@)]

(* pollCheckEnabled up to the await of its timer *)
pollCheckEnabled(i, enablementRetries, pollRetries) ==
  IF pollRetries > pollsBeforeRetry
    THEN enableApiWithRetries(i, enablementRetries + 1)
    ELSE [i EXCEPT !.pc = "sleep", !.phase = "poll",
                   !.enablementRetries = enablementRetries,
                   !.pollRetries = pollRetries, !.sleepCount = Inc(@)]

(* Mutant: ensure enables even when check reported enabled *)
ensureAfterCheck_NoReturn(i, isEnabled) ==
  enableApiWithRetries([i EXCEPT !.initial = IF @ = "hit" THEN @
                                            ELSE IF isEnabled THEN "enabled"
                                            ELSE "not_enabled",
                                 !.lastState = "none"], 0)

(* ensure after its await of check, lines 176-182 *)
ensureAfterCheck(i, isEnabled) ==
  IF isEnabled
    THEN Return([i EXCEPT !.initial = IF @ = "hit" THEN @ ELSE "enabled"], "void")
    ELSE enableApiWithRetries([i EXCEPT !.initial = "not_enabled",
                                        !.lastState = "none"], 0)

(* Mutant: the success path forgets the telemetry event *)
pollAfterCheck_NoTrack(i, isEnabled) ==
  IF isEnabled
    THEN Return(i, "void")
    ELSE pollCheckEnabled([i EXCEPT !.lastState = "none"],
                          i.enablementRetries, i.pollRetries + 1)

(* pollCheckEnabled after its await of check, lines 129-138 *)
pollAfterCheck(i, isEnabled) ==
  IF isEnabled
    THEN Return([i EXCEPT !.tracked = Inc(@), !.trackedName = i.apiName,
                          !.telemetry = "pending"], "void")
    ELSE pollCheckEnabled([i EXCEPT !.lastState = "none"],
                          i.enablementRetries, i.pollRetries + 1)

(* check returns isEnabled to whoever awaited it *)
checkReturned(i, isEnabled) ==
  CASE i.op = "check" -> Return(i, IF isEnabled THEN "true" ELSE "false")
    [] i.op # "check" /\ i.phase = "initial" -> ensureAfterCheck(i, isEnabled)
    [] i.op # "check" /\ i.phase = "poll" -> pollAfterCheck(i, isEnabled)

(* Mutant: check skips the cache lookup *)
check_NoCache(i, f) == [i EXCEPT !.pc = "get", !.getCount = Inc(@)]

(* check up to its first await: the cache lookup, then the GET being sent *)
check(i, f) ==
  IF checkAPIEnablementCache(f, i.projectId, i.apiName)
    THEN checkReturned([i EXCEPT !.initial = IF @ = "pending" THEN "hit" ELSE @], TRUE)
    ELSE [i EXCEPT !.pc = "get", !.getCount = Inc(@)]

(* check from its call: line 34 may throw, then the lookup and the GET *)
checkCall(i, apiUri, f) ==
  IF apiNameThrows(apiUri)
    THEN Throw(i, InvalidURLError)
    ELSE check([i EXCEPT !.apiName = apiNameOf(apiUri)], f)

(* ensure from its call: line 171 may throw, then check(projectId, hostname) *)
ensure(i, f) ==
  IF apiNameThrows(i.apiUri)
    THEN Throw(i, InvalidURLError)
    ELSE checkCall([i EXCEPT !.apiName = apiNameOf(i.apiUri)], apiNameOf(i.apiUri), f)

----------------------------------------------------------------------------
Init ==
  /\ file = EmptyCache
  /\ inv = Idle
  /\ other = [q \in Others |-> [pc |-> "idle", projectId |-> "none",
                               apiName |-> NoName, snap |-> EmptyCache]]
  /\ sawEnabled = {}
  /\ written = {}

(* A caller invokes check, ensure or bestEffortEnsure *)
Call(op, projectId, apiUri) ==
  /\ inv.pc = "idle"
  /\ inv' = LET i == [Idle EXCEPT !.op = op, !.projectId = projectId,
                                  !.apiUri = apiUri,
                                  !.phase = "initial", !.initial = "pending"]
            IN  IF op = "check" THEN checkCall(i, apiUri, file) ELSE ensure(i, file)
  /\ UNCHANGED <<file, other, sawEnabled, written>>

(* Mutant: every state but "DISABLED" counts as enabled *)
GetResponse_NotDisabled(state) ==
  /\ inv.pc = "get"
  /\ IF state # "DISABLED"
       THEN /\ inv' = [inv EXCEPT !.pc = "cache_set", !.after = "check",
                                  !.lastState = state,
                                  !.state = state, !.snap = configstoreGet(file)]
            /\ sawEnabled' = IF state = "ENABLED"
                               THEN sawEnabled \cup {<<inv.projectId, inv.apiName>>}
                               ELSE sawEnabled
       ELSE /\ inv' = checkReturned([inv EXCEPT !.lastState = state], FALSE)
            /\ UNCHANGED sawEnabled
  /\ UNCHANGED <<file, other, written>>

(* Mutant: check caches whatever state the query returned *)
GetResponse_CacheAlways(state) ==
  /\ inv.pc = "get"
  /\ inv' = [inv EXCEPT !.pc = "cache_set", !.after = "check", !.lastState = state,
                        !.state = state, !.snap = configstoreGet(file)]
  /\ sawEnabled' = IF state = "ENABLED"
                     THEN sawEnabled \cup {<<inv.projectId, inv.apiName>>}
                     ELSE sawEnabled
  /\ UNCHANGED <<file, other, written>>

(* The status query answers; on "ENABLED" cacheEnabledAPI reads the store *)
GetResponse(state) ==
  /\ inv.pc = "get"
  /\ IF state = "ENABLED"
       THEN /\ inv' = [inv EXCEPT !.pc = "cache_set", !.after = "check",
                                  !.lastState = state,
                                  !.state = state, !.snap = configstoreGet(file)]
            /\ sawEnabled' = sawEnabled \cup {<<inv.projectId, inv.apiName>>}
       ELSE /\ inv' = checkReturned([inv EXCEPT !.lastState = state], FALSE)
            /\ UNCHANGED sawEnabled
  /\ UNCHANGED <<file, other, written>>

(* The status query fails *)
GetError ==
  /\ inv.pc = "get"
  /\ inv' = Throw([inv EXCEPT !.cause = TransportError], TransportError)
  /\ UNCHANGED <<file, other, sawEnabled, written>>

(* Mutant: cacheEnabledAPI drops its write *)
CacheSet_NoWrite ==
  /\ inv.pc = "cache_set"
  /\ inv' = LET i == [inv EXCEPT !.snap = EmptyCache, !.after = "none", !.state = "none"]
            IN  IF inv.after = "check"
                  THEN checkReturned(i, TRUE)
                  ELSE pollCheckEnabled(i, i.enablementRetries, 0)
  /\ UNCHANGED <<file, other, sawEnabled, written>>

(* cacheEnabledAPI writes the modified map back, then its caller goes on *)
CacheSet ==
  /\ inv.pc = "cache_set"
  /\ file' = configstoreSet(file, cacheWithEntry(inv.snap, inv.projectId, inv.apiName))
  /\ inv' = LET i == [inv EXCEPT !.snap = EmptyCache, !.after = "none", !.state = "none"]
            IN  IF inv.after = "check"
                  THEN checkReturned(i, TRUE)
                  ELSE pollCheckEnabled(i, i.enablementRetries, 0)
  /\ written' = written \cup {<<inv.projectId, inv.apiName>>}
  /\ UNCHANGED <<other, sawEnabled>>

(* Mutant: enable returns without caching *)
PostOk_NoCache ==
  /\ inv.pc = "post"
  /\ inv' = pollCheckEnabled(inv, inv.enablementRetries, 0)
  /\ UNCHANGED <<file, other, sawEnabled, written>>

(* The enable request succeeds; cacheEnabledAPI reads the store *)
PostOk ==
  /\ inv.pc = "post"
  /\ inv' = [inv EXCEPT !.pc = "cache_set", !.after = "enable",
                        !.snap = configstoreGet(file)]
  /\ UNCHANGED <<file, other, sawEnabled, written>>

(* The enable request fails *)
PostError(err) ==
  /\ inv.pc = "post"
  /\ inv' = Throw([inv EXCEPT !.cause = err],
                  enableCatch(err, inv.projectId, inv.apiName))
  /\ UNCHANGED <<file, other, sawEnabled, written>>

(* The poll timer fires and pollCheckEnabled calls check *)
SleepDone ==
  /\ inv.pc = "sleep"
  /\ inv' = checkCall([inv EXCEPT !.pollCount = Inc(@)], inv.apiName, file)
  /\ UNCHANGED <<file, other, sawEnabled, written>>

(* Mutant: the telemetry promise is awaited, so its rejection is thrown *)
TrackSettle_Propagates(outcome) ==
  /\ inv.telemetry = "pending"
  /\ inv' = IF outcome = "failed"
              THEN [inv EXCEPT !.telemetry = outcome, !.result = "none",
                               !.raised = TransportError]
              ELSE [inv EXCEPT !.telemetry = outcome]
  /\ UNCHANGED <<file, other, sawEnabled, written>>

(* The promise of trackGA4, which pollCheckEnabled discarded, settles *)
TrackSettle(outcome) ==
  /\ inv.telemetry = "pending"
  /\ inv' = [inv EXCEPT !.telemetry = outcome]
  /\ UNCHANGED <<file, other, sawEnabled, written>>

(* The caller has its result; the process is free for the next invocation *)
Finish ==
  /\ inv.pc = "done"
  /\ inv' = Idle
  /\ UNCHANGED <<file, other, sawEnabled, written>>

(* Another CLI process: its check got "ENABLED" from the status query and *)
(* its cacheEnabledAPI reads the store                                     *)
OtherCheckEnabled(q, projectId, apiName) ==
  /\ other[q].pc = "idle"
  /\ other' = [other EXCEPT ![q] = [pc |-> "cache_set", projectId |-> projectId,
                                    apiName |-> apiName, snap |-> configstoreGet(file)]]
  /\ sawEnabled' = sawEnabled \cup {<<projectId, apiName>>}
  /\ UNCHANGED <<file, inv, written>>

(* Another CLI process: its enable request succeeded and its *)
(* cacheEnabledAPI reads the store                           *)
OtherEnableOk(q, projectId, apiName) ==
  /\ other[q].pc = "idle"
  /\ other' = [other EXCEPT ![q] = [pc |-> "cache_set", projectId |-> projectId,
                                    apiName |-> apiName, snap |-> configstoreGet(file)]]
  /\ UNCHANGED <<file, inv, sawEnabled, written>>

(* Another CLI process: its cacheEnabledAPI writes the modified map back *)
OtherCacheSet(q) ==
  /\ other[q].pc = "cache_set"
  /\ file' = configstoreSet(file, cacheWithEntry(other[q].snap, other[q].projectId,
                                                 other[q].apiName))
  /\ written' = written \cup {<<other[q].projectId, other[q].apiName>>}
  /\ other' = [other EXCEPT ![q] = [pc |-> "idle", projectId |-> "none",
                                    apiName |-> NoName, snap |-> EmptyCache]]
  /\ UNCHANGED <<inv, sawEnabled>>

Next ==
  \/ \E op \in {"check", "ensure", "bestEffortEnsure"}, p \in Projects, u \in ApiUris :
       Call(op, p, u)
  \/ \E s \in States : GetResponse(s)
  \/ GetError
  \/ CacheSet
  \/ PostOk
  \/ \E e \in EnableErrors : PostError(e)
  \/ SleepDone
  \/ \E o \in {"sent", "failed"} : TrackSettle(o)
  \/ Finish
  \/ \E q \in Others, p \in Projects, s \in Services : OtherCheckEnabled(q, p, s)
  \/ \E q \in Others, p \in Projects, s \in Services : OtherEnableOk(q, p, s)
  \/ \E q \in Others : OtherCacheSet(q)

Spec == Init /\ [][Next]_vars

(* A single process: nobody else touches the configstore file *)
NextSingle ==
  \/ \E op \in {"check", "ensure", "bestEffortEnsure"}, p \in Projects, u \in ApiUris :
       Call(op, p, u)
  \/ \E s \in States : GetResponse(s)
  \/ GetError
  \/ CacheSet
  \/ PostOk
  \/ \E e \in EnableErrors : PostError(e)
  \/ SleepDone
  \/ \E o \in {"sent", "failed"} : TrackSettle(o)
  \/ Finish

SingleSpec == Init /\ [][NextSingle]_vars

(* HTTP responses arrive, timers fire and a started store write completes *)
FairSpec ==
  /\ Spec
  /\ WF_vars((\E s \in States : GetResponse(s)) \/ GetError)
  /\ WF_vars(PostOk \/ (\E e \in EnableErrors : PostError(e)))
  /\ WF_vars(SleepDone)
  /\ WF_vars(CacheSet)

----------------------------------------------------------------------------
(* Properties *)

Pair == <<inv.projectId, inv.apiName>>

IsEnsure == inv.op \in {"ensure", "bestEffortEnsure"}

NoWriterActive == inv.pc # "cache_set" /\ \A q \in Others : other[q].pc = "idle"

AllEntriesTrue(cache) == \A pr \in Entries(cache) : cache[pr[1]][pr[2]] = TRUE

(* The step is this process's cacheEnabledAPI write *)
MainWrites == inv.pc = "cache_set" /\ inv' # inv

(* The step is the cacheEnabledAPI write of the other process q *)
OtherWrites(q) == other[q].pc = "cache_set" /\ other'[q] # other[q]

(* C1: an entry is in the cache only if some earlier status query for that *)
(* pair returned "ENABLED".                                                *)
C1_CachedOnlyAfterEnabled == Entries(file) \subseteq sawEnabled

(* C2: if the service never reports ENABLED and every enable request       *)
(* succeeds, ensure ends with the timeout error after exactly 2 enable     *)
(* requests and 13 polls after each of them.                               *)
C2_TimeoutAfterTwoEnables ==
  ( /\ inv.pc = "done"
    /\ inv.op = "ensure"
    /\ inv.initial = "not_enabled"
    /\ Pair \notin sawEnabled
    /\ inv.raised \in {NoError, TimeoutError(inv.apiName)} )
  => ( /\ inv.raised = TimeoutError(inv.apiName)
       /\ inv.enableCount = 2
       /\ inv.pollCount = 2 * (pollsBeforeRetry + 1) )

(* C3: a successful return of ensure is preceded by a status query for the *)
(* pair that reported "ENABLED" (in this invocation or the one that wrote  *)
(* the cache entry).                                                       *)
C3_EnsureReturnsOnlyWhenEnabled ==
  ( /\ inv.pc = "done"
    /\ inv.op = "ensure"
    /\ inv.raised = NoError )
  => Pair \in sawEnabled

(* C4: a check of a pair with a cached entry returns true and sends no     *)
(* status query.                                                           *)
C4_CachedCheckNoNetwork ==
  [][ ( /\ \/ inv.pc = "idle" /\ inv'.pc # "idle"
           \/ inv.pc = "sleep" /\ inv' # inv
        /\ <<inv'.projectId, inv'.apiName>> \in Entries(file) )
      => ( /\ inv'.pc = "done"
           /\ inv'.getCount = inv.getCount
           /\ inv'.raised = NoError
           /\ inv'.result = IF inv'.op = "check" THEN "true" ELSE "void" ) ]_vars

C4_Witness ==
  /\ inv.pc = "done"
  /\ inv.op = "check"
  /\ inv.initial = "hit"
  /\ inv.result = "true"
  /\ inv.getCount = 0

(* C5 as stated: once all racing writers have finished, every entry any of *)
(* them wrote is present with value true.                                  *)
C5_NoEntryLost ==
  NoWriterActive =>
    /\ written \subseteq Entries(file)
    /\ AllEntriesTrue(file)

(* C5 amended: a write from a stale read can drop entries written in       *)
(* between; every entry present has value true and was written by some     *)
(* writer, and each write leaves its own entry and the entries its writer  *)
(* had read.                                                               *)
C5_RaceKeepsOwnAndReadEntries ==
  /\ [](Entries(file) \subseteq written /\ AllEntriesTrue(file))
  /\ [][ /\ MainWrites =>
              Entries(inv.snap) \cup {Pair} \subseteq Entries(file')
         /\ \A q \in Others : OtherWrites(q) =>
              Entries(other[q].snap) \cup {<<other[q].projectId, other[q].apiName>>}
                \subseteq Entries(file') ]_vars

C5_Witness ==
  /\ NoWriterActive
  /\ Cardinality(written) = 2
  /\ Cardinality(Entries(file)) = 1

(* C6: one ensure invocation sends at most 2 enable requests. *)
C6_AtMostTwoEnables == inv.enableCount <= 2

C6_Witness ==
  /\ inv.pc = "done"
  /\ inv.op = "ensure"
  /\ inv.enableCount = 2
  /\ inv.raised = TimeoutError(inv.apiName)

(* C7: once ensure has found the service not enabled, the enable-with-retry *)
(* sequence eventually returns or fails.                                    *)
C7_EnsureTerminates ==
  (IsEnsure /\ inv.initial = "not_enabled") ~> (inv.pc = "done")

C7_Witness ==
  /\ inv.pc = "done"
  /\ IsEnsure
  /\ inv.initial = "not_enabled"
  /\ inv.pollCount = 2 * (pollsBeforeRetry + 1)

(* C8: when the initial check of ensure reports enabled, ensure returns     *)
(* with no enable request, no poll and no further status query.             *)
C8_EnabledEnsureReturnsAtOnce ==
  (IsEnsure /\ inv.initial \in {"hit", "enabled"}) =>
    /\ inv.pc = "done"
    /\ inv.result = "void"
    /\ inv.raised = NoError
    /\ inv.enableCount = 0
    /\ inv.sleepCount = 0
    /\ inv.getCount = IF inv.initial = "hit" THEN 0 ELSE 1

C8_Witness ==
  /\ inv.pc = "done"
  /\ inv.op = "ensure"
  /\ inv.initial = "enabled"
  /\ inv.enableCount = 0

(* C9: bestEffortEnsure never raises, whatever error ensure ends with. *)
C9_BestEffortNeverRaises ==
  inv.op = "bestEffortEnsure" => inv.raised = NoError

C9_Witness ==
  /\ inv.pc = "done"
  /\ inv.op = "bestEffortEnsure"
  /\ inv.swallowed = TimeoutError(inv.apiName)

(* C10 as stated: every stored entry is true, no step removes an entry or  *)
(* makes it non-true, and a check whose query did not return "ENABLED"     *)
(* leaves the cache unchanged.                                             *)
C10_CacheOnlyGrows ==
  /\ [](AllEntriesTrue(file))
  /\ [][Entries(file) \subseteq Entries(file')]_vars
  /\ [][(inv.pc = "get" /\ inv' # inv /\ inv'.pc # "cache_set") => file' = file]_vars

(* C10 amended: every stored entry is true; only a check whose query       *)
(* returned "ENABLED" or a successful enable writes; a write whose read is *)
(* still current only adds its entry (one made from a stale read can drop  *)
(* entries written in between).                                            *)
C10_TrueEntriesGrowWithoutRace ==
  /\ [](AllEntriesTrue(file))
  /\ []((inv.pc = "cache_set" /\ inv.after = "check") => inv.state = "ENABLED")
  /\ [][(inv.pc = "get" /\ inv' # inv /\ inv'.pc # "cache_set") => file' = file]_vars
  /\ [][file' # file =>
          \/ MainWrites /\ (inv.snap = file => Entries(file) \subseteq Entries(file'))
          \/ \E q \in Others :
               OtherWrites(q) /\ (other[q].snap = file =>
                                    Entries(file) \subseteq Entries(file'))]_vars

C10_Witness ==
  /\ inv.pc = "done"
  /\ inv.op = "check"
  /\ inv.result = "false"
  /\ Cardinality(Entries(file)) = 1
  /\ Pair \notin Entries(file)

(* The error the caller of ensure would see (bestEffortEnsure logs it) *)
Surfaced == IF inv.op = "bestEffortEnsure" THEN inv.swallowed ELSE inv.raised

(* The service a caller means by either form of its name *)
ServiceOf(apiUri) ==
  CHOOSE h \in Services \cup {HttpBin} : apiUri \in {BareForm(h), UrlForm(h)}

(* C11: on a cache miss check sends exactly one status query, returns true *)
(* iff the state it got is "ENABLED", and writes the entry exactly when it *)
(* returns true.                                                           *)
C11_MissQueriesOnceAndCachesIffEnabled ==
  [][ ( /\ inv'.op = "check"
        /\ inv.pc # "done"
        /\ inv'.pc = "done"
        /\ inv'.initial # "hit"
        /\ inv'.raised = NoError )
      => ( /\ inv'.getCount = 1
           /\ inv'.result \in {"true", "false"}
           /\ inv'.result = "true" <=> inv'.lastState = "ENABLED"
           /\ inv'.result = "true" =>
                /\ MainWrites
                /\ <<inv'.projectId, inv'.apiName>> \in Entries(file')
                /\ file'[inv'.projectId][inv'.apiName] = TRUE
           /\ inv'.result = "false" => (inv.pc = "get" /\ file' = file) ) ]_vars

C11_Witness ==
  /\ inv.pc = "done"
  /\ inv.op = "check"
  /\ inv.result = "true"
  /\ inv.getCount = 1
  /\ inv.lastState = "ENABLED"
  /\ Entries(file) = {Pair}

(* C12: check and ensure take the full URL and the bare hostname of every  *)
(* service to the same cache key and API path, with the same result.       *)
C12_FormsInterchangeable ==
  inv.pc # "idle" =>
    /\ Surfaced.type # "TypeError"
    /\ inv.apiName = ServiceOf(inv.apiUri)

(* C13: when the poll's status query returns "ENABLED" after a successful  *)
(* enable, ensure resolves and emits api_enabled with the service name     *)
(* exactly once; an ensure whose initial check reports enabled emits none. *)
C13_ApiEnabledEventOnce ==
  /\ inv.tracked <= 1
  /\ ( IsEnsure /\ inv.pc = "done" /\ inv.phase = "poll" /\ inv.lastState = "ENABLED" )
       => ( /\ Surfaced = NoError
            /\ inv.result = "void"
            /\ inv.tracked = 1
            /\ inv.trackedName = inv.apiName )
  /\ ( IsEnsure /\ inv.initial \in {"hit", "enabled"} ) => inv.tracked = 0

C13_Witness ==
  /\ inv.pc = "done"
  /\ inv.op = "ensure"
  /\ inv.enableCount = 1
  /\ inv.pollCount = 1
  /\ inv.getCount = 2
  /\ inv.lastState = "ENABLED"
  /\ inv.tracked = 1

(* C14: a permission-denied response whose message is "Permission denied   *)
(* to enable service [X]" yields, for every service name X, the same error *)
(* with a message holding the console URL for X and the project; any other *)
(* permission-denied response is re-raised unmodified.                     *)
C14_PermissionDeniedRewritten ==
  ( /\ inv.pc = "done"
    /\ inv.cause.status = "PERMISSION_DENIED"
    /\ ~inv.cause.billing )
  => IF /\ Len(inv.cause.message) = 3
        /\ inv.cause.message[1] = "Permission denied to enable service ["
        /\ inv.cause.message[3] = "]"
       THEN /\ Surfaced.type = inv.cause.type
            /\ Surfaced.status = inv.cause.status
            /\ Len(Surfaced.message) = 6
            /\ Surfaced.message[3] = "https://console.cloud.google.com/apis/library/"
            /\ Surfaced.message[4] = inv.cause.message[2]
            /\ Surfaced.message[5] = "?project="
            /\ Surfaced.message[6] = inv.projectId
       ELSE Surfaced = inv.cause

(* C15: a billing-restriction response makes enable, hence ensure, fail    *)
(* with a user-facing error naming the project and the upgrade URL of that *)
(* project, also when the response is a permission-denied one.             *)
C15_BillingErrorNamesProject ==
  ( inv.pc = "done" /\ inv.op = "ensure" /\ inv.cause.billing )
  => ( /\ inv.raised.type = "FirebaseError"
       /\ Len(inv.raised.message) = 8
       /\ inv.raised.message[2] = inv.projectId
       /\ inv.raised.message[6] = "https://console.firebase.google.com/project/"
       /\ inv.raised.message[7] = inv.projectId
       /\ inv.raised.message[8] = "/usage/details" )

C15_Witness ==
  /\ inv.pc = "done"
  /\ inv.op = "ensure"
  /\ inv.cause.billing
  /\ inv.cause.status = "PERMISSION_DENIED"
  /\ inv.raised.type = "FirebaseError"

(* C16: a failed status query or enable request surfaces to the caller of  *)
(* check or ensure and ends the invocation: nothing is sent, emitted or    *)
(* cached afterwards, and an enable error that is neither billing nor      *)
(* permission-denied is re-raised unchanged.                               *)
C16_ErrorsSurface ==
  /\ []( ( inv.op \in {"check", "ensure"} /\ inv.cause # NoError )
         => ( /\ inv.pc = "done"
              /\ inv.raised # NoError
              /\ (~inv.cause.billing /\ inv.cause.status # "PERMISSION_DENIED")
                   => inv.raised = inv.cause ) )
  /\ [][ ( inv.cause = NoError /\ inv'.cause # NoError )
         => ( /\ file' = file
              /\ inv'.getCount = inv.getCount
              /\ inv'.enableCount = inv.enableCount
              /\ inv'.sleepCount = inv.sleepCount
              /\ inv'.tracked = inv.tracked ) ]_vars
  /\ [][ ( inv.cause # NoError /\ inv' # inv ) => inv' = Idle ]_vars

C16_Witness ==
  /\ inv.pc = "done"
  /\ inv.op = "ensure"
  /\ inv.phase = "poll"
  /\ inv.cause = TransportError
  /\ inv.raised = TransportError

(* C17: in the polling phase every check follows one sleep: a sleep comes  *)
(* after each enable request before the first check and one sleep between  *)
(* two checks; once the poll budget is used up the next enable request is  *)
(* sent with no sleep in between.                                          *)
C17_OneSleepBeforeEachPoll ==
  IsEnsure =>
    /\ inv.sleepCount = inv.pollCount + (IF inv.pc = "sleep" THEN 1 ELSE 0)
    /\ inv.pc = "post" => inv.sleepCount = (inv.enableCount - 1) * (pollsBeforeRetry + 1)
    /\ (inv.pc = "sleep" /\ inv.pollRetries = 0)
         => inv.pollCount = (inv.enableCount - 1) * (pollsBeforeRetry + 1)

C17_Witness ==
  /\ inv.pc = "post"
  /\ inv.enableCount = 2
  /\ inv.sleepCount = pollsBeforeRetry + 1
  /\ inv.pollCount = pollsBeforeRetry + 1

(* C18: when the poll saw the service enabled and the telemetry call       *)
(* fails, ensure still resolves with no error.                             *)
C18_TelemetryFailureStaysSilent ==
  inv.telemetry = "failed" =>
    /\ inv.pc = "done"
    /\ inv.result = "void"
    /\ inv.raised = NoError
    /\ inv.swallowed = NoError

C18_Witness ==
  /\ inv.telemetry = "failed"
  /\ inv.op = "ensure"
  /\ inv.lastState = "ENABLED"
  /\ inv.pc = "done"

C20_SuccessLeavesEntry ==
  /\ []( ( /\ inv.pc = "done"
           /\ Surfaced = NoError
           /\ IsEnsure \/ (inv.op = "check" /\ inv.result = "true") )
         => ( Pair \in Entries(file) /\ file[inv.projectId][inv.apiName] = TRUE ) )
  /\ [][ /\ Entries(file) \subseteq Entries(file')
         /\ AllEntriesTrue(file') ]_vars

C20_Witness ==
  /\ inv.pc = "done"
  /\ inv.op = "check"
  /\ inv.initial = "hit"
  /\ inv.result = "true"
  /\ Entries(file) = Pairs

====
